---- MODULE Spec2Model ----
(***************************************************************************)
(* Model of the clip generator Lambda (handler.py): one invocation of      *)
(* handler(event, context), step by step, with the event's fields, the     *)
(* filesystem, the transcoding binary and the object store as the          *)
(* environment.                                                            *)
(*                                                                         *)
(* Strings are sequences of tokens (each token a piece of text), so that   *)
(* f-string formatting is concatenation (\o) and str(int) / int(str) are   *)
(* computed digit by digit.  Floats are modelled as whole seconds.         *)
(***************************************************************************)
EXTENDS Integers, Sequences, FiniteSets, TLC

(***************************************************************************)
(* Bounds of the model.                                                    *)
(***************************************************************************)
\* start_seconds / end_seconds numbers range over -1 .. MaxSeconds
MaxSeconds == 2
\* exchange_index numbers range over 0 .. MaxIndex
MaxIndex == 1

(***************************************************************************)
(* Program constants.                                                      *)
(***************************************************************************)
StageTimeout == 120
UploadTimeout == 60
HealthTimeout == 10
SUPABASE_URL == <<"https://proj.supabase.co">>
SUPABASE_BUCKET == <<"clips">>

(***************************************************************************)
(* Python values read from the event (JSON): t is the type, cs the text of *)
(* a str, n the value of a number.                                         *)
(***************************************************************************)
PyMissing == [t |-> "missing", cs |-> <<>>, n |-> 0]
PyNone == [t |-> "null", cs |-> <<>>, n |-> 0]
PyStr(cs) == [t |-> "str", cs |-> cs, n |-> 0]
PyNum(n) == [t |-> "num", cs |-> <<>>, n |-> n]

\* bool(v)
Truthy(v) ==
    CASE v.t = "str" -> v.cs # <<>>
      [] v.t = "num" -> v.n # 0
      [] OTHER -> FALSE

\* d.get(key, '') : the default '' when the key is missing
GetOrEmpty(v) == IF v.t = "missing" THEN PyStr(<<>>) ELSE v

\* a or b
PyOr(a, b) == IF Truthy(a) THEN a ELSE b

\* path.endswith('/health'), for a str: the text ends with the tokens "/", "health"
EndsWithHealth(cs) ==
    /\ Len(cs) >= 2
    /\ cs[Len(cs) - 1] = "/"
    /\ cs[Len(cs)] = "health"

Digit == [d \in 0..9 |-> CASE d = 0 -> "0" [] d = 1 -> "1" [] d = 2 -> "2" [] d = 3 -> "3"
                          [] d = 4 -> "4" [] d = 5 -> "5" [] d = 6 -> "6" [] d = 7 -> "7"
                          [] d = 8 -> "8" [] d = 9 -> "9"]

DigitChars == {Digit[d] : d \in 0..9}

DigitVal(c) == CHOOSE d \in 0..9 : Digit[d] = c

RECURSIVE NatStr(_)
NatStr(n) == IF n < 10 THEN <<Digit[n]>> ELSE NatStr(n \div 10) \o <<Digit[n % 10]>>

\* str(n) of an int
IntStr(n) == IF n < 0 THEN <<"-">> \o NatStr(-n) ELSE NatStr(n)

RECURSIVE DigitsVal(_)
DigitsVal(cs) ==
    IF cs = <<>> THEN 0 ELSE 10 * DigitsVal(SubSeq(cs, 1, Len(cs) - 1)) + DigitVal(cs[Len(cs)])

IsDigits(cs) == cs # <<>> /\ \A i \in 1..Len(cs) : cs[i] \in DigitChars

\* the text of a str is a decimal literal that int() and float() accept
IsNumeral(cs) ==
    \/ IsDigits(cs)
    \/ Len(cs) >= 2 /\ cs[1] = "-" /\ IsDigits(Tail(cs))

NumeralVal(cs) == IF cs[1] = "-" THEN -DigitsVal(Tail(cs)) ELSE DigitsVal(cs)

\* float(v) / int(v) succeed
Coercible(v) == v.t = "num" \/ (v.t = "str" /\ IsNumeral(v.cs))

\* float(v) / int(v), for a value they accept
CoerceNum(v) ==
    IF v.t = "num" THEN v.n ELSE IF v.t = "str" /\ IsNumeral(v.cs) THEN NumeralVal(v.cs) ELSE 0

(***************************************************************************)
(* The state: the locals of handler, the filesystem, the calls made to     *)
(* the outside, and the response.                                          *)
(***************************************************************************)
VARIABLES
    pc,             \* position in handler
    path,           \* local path (line 45)
    http_method,    \* local http_method (line 46)
    body,           \* local body (lines 53-56): the six fields, or not a mapping
    locals,         \* recording_url, start_seconds, end_seconds, chat_image_base64, call_id, exchange_index
    work_dir,       \* local work_dir: the uuid of /tmp/clip-{uuid}, <<>> before line 66
    file_name,      \* local file_name (line 137), <<>> before
    dirs,           \* the directories /tmp/clip-* that exist
    bucket,         \* the keys the object store holds
    calls,          \* the calls made to the outside, in order
    stage,          \* what each external step did in this request
    pending,        \* the return value or exception on its way through finally
    response        \* what handler returned (or raised) to its caller

handlerVars ==
    <<pc, path, http_method, body, locals, work_dir, file_name, dirs, bucket, calls,
      stage, pending, response>>

\* several invocations of handler in flight over one /tmp
VARIABLES
    inflight,       \* per request: its position in handler and its local work_dir
    issued,         \* the values uuid.uuid4() has given on this host
    tmp,            \* /tmp: the directories and files in it, each file with its writer
    touched         \* the paths each request has created, written, read or removed

concVars == <<inflight, issued, tmp, touched>>

\* the voice agent, src/livekit-agent/agent.py: one process, one event loop
VARIABLES
    sessions,           \* per entrypoint invocation: where it is, the conversation items
                        \* its session emitted, the list its final_data holds
    transcript_entries, \* the module-level name: the list object it is bound to
    lists,              \* the list objects made so far, by identity
    loop,               \* the tasks asyncio.create_task scheduled, in order
    room                \* per room: what publish_data sent

agentVars == <<sessions, transcript_entries, lists, loop, room>>

\* the chat loop, src/livekit-agent/doc-persona-package/doc.py
VARIABLES
    chat_pc,        \* position in interactive_mode
    user_input,     \* local user_input (line 85)
    conversation,   \* local conversation (line 81)
    exchanges,      \* the calls of client.chat.completions.create and their replies
    reads           \* the calls of input() so far

chatVars == <<chat_pc, user_input, conversation, exchanges, reads>>

\* what each program leaves alone
otherVars == <<concVars, agentVars, chatVars>>

outsideConc == <<handlerVars, agentVars, chatVars>>

outsideAgent == <<handlerVars, concVars, chatVars>>

outsideChat == <<handlerVars, concVars, agentVars>>

vars == <<handlerVars, concVars, agentVars, chatVars>>

(***************************************************************************)
(* Responses and exceptions.                                               *)
(***************************************************************************)
NoResp ==
    [kind |-> "none", statusCode |-> 0, headers |-> FALSE, clipUrl |-> <<>>,
     error |-> <<>>, status |-> "", ffmpeg_available |-> FALSE]

\* {'statusCode': 500, 'body': json.dumps({'error': msg})}
ErrorResp(msg) ==
    [kind |-> "error", statusCode |-> 500, headers |-> FALSE, clipUrl |-> <<>>,
     error |-> msg, status |-> "", ffmpeg_available |-> FALSE]

\* {'statusCode': 200, 'headers': {...}, 'body': json.dumps({'clipUrl': url})}
ClipResp(url) ==
    [kind |-> "clip", statusCode |-> 200, headers |-> TRUE, clipUrl |-> url,
     error |-> <<>>, status |-> "", ffmpeg_available |-> FALSE]

\* {'statusCode': 200, 'body': json.dumps({'status': 'healthy', 'ffmpeg_available': a})}
HealthResp(a) ==
    [kind |-> "health", statusCode |-> 200, headers |-> FALSE, clipUrl |-> <<>>,
     error |-> <<>>, status |-> "healthy", ffmpeg_available |-> a]

\* no response: the exception left handler
Raised(msg) ==
    [kind |-> "raised", statusCode |-> 0, headers |-> FALSE, clipUrl |-> <<>>,
     error |-> msg, status |-> "", ffmpeg_available |-> FALSE]

\* the except clause of lines 181-187: str(e) as the error message
GenericError(msg) == ErrorResp(msg)

NoPending == [kind |-> "none", resp |-> NoResp, exc |-> <<>>]
Return(r) == [kind |-> "return", resp |-> r, exc |-> <<>>]
Raise(msg) == [kind |-> "raise", resp |-> NoResp, exc |-> msg]

\* str(e) of the exceptions the steps raise
NoAttr(type, attr) == <<"'", type, "' object has no attribute '", attr, "'">>
KeyErrorMsg(key) == <<"'", key, "'">>
NotSubscriptable(type) == <<"'", type, "' object is not subscriptable">>
BadJsonMsg == <<"Expecting value: line 1 column 1 (char 0)">>
BadFloatMsg(v) ==
    IF v.t = "str" THEN <<"could not convert string to float: '">> \o v.cs \o <<"'">>
    ELSE <<"float() argument must be a string or a real number, not 'NoneType'">>
BadIntMsg(v) ==
    IF v.t = "str" THEN <<"invalid literal for int() with base 10: '">> \o v.cs \o <<"'">>
    ELSE <<"int() argument must be a string, a bytes-like object or a real number, not 'NoneType'">>
TimeoutMsg(cmd, t) ==
    <<"Command '", cmd, "'", " timed out after ">> \o IntStr(t) \o <<" seconds">>
NoSuchFileMsg(f) == <<"[Errno 2] No such file or directory: '", f, "'">>

(***************************************************************************)
(* Routing, lines 45-49.                                                   *)
(***************************************************************************)
PathVals ==
    {PyMissing, PyNone, PyStr(<<"/", "health">>), PyStr(<<"/", "clip">>), PyNum(5)}

MethodVals == {PyMissing, PyNone, PyStr(<<"GET">>), PyStr(<<"POST">>)}

\* event['requestContext'] and what is under it: rc and http are "missing", "null",
\* "dict" or "str"; method is read when both are dicts
RequestContexts ==
    {[rc |-> "missing", http |-> "missing", method |-> PyMissing],
     [rc |-> "null", http |-> "missing", method |-> PyMissing],
     [rc |-> "str", http |-> "missing", method |-> PyMissing],
     [rc |-> "dict", http |-> "missing", method |-> PyMissing],
     [rc |-> "dict", http |-> "null", method |-> PyMissing]}
    \cup {[rc |-> "dict", http |-> "dict", method |-> m] : m \in MethodVals}

RoutingEvents ==
    [path : PathVals, rawPath : PathVals, httpMethod : MethodVals,
     requestContext : RequestContexts]

\* line 45
PathOf(ev) == PyOr(GetOrEmpty(ev.path), GetOrEmpty(ev.rawPath))

\* line 46 raises AttributeError: .get on something that is no dict
MethodRaises(ev) ==
    /\ ~Truthy(GetOrEmpty(ev.httpMethod))
    /\ \/ ev.requestContext.rc \in {"null", "str"}
       \/ ev.requestContext.rc = "dict" /\ ev.requestContext.http \in {"null", "str"}

MethodRaisesMsg(ev) ==
    IF ev.requestContext.rc = "null" \/
       (ev.requestContext.rc = "dict" /\ ev.requestContext.http = "null")
    THEN NoAttr("NoneType", "get") ELSE NoAttr("str", "get")

\* line 46, when it does not raise
MethodOf(ev) ==
    PyOr(GetOrEmpty(ev.httpMethod),
         IF ev.requestContext.rc = "dict" /\ ev.requestContext.http = "dict"
         THEN GetOrEmpty(ev.requestContext.method) ELSE PyStr(<<>>))

\* line 48 raises AttributeError: path is no str
EndswithRaises(p) == p.t # "str"

EndswithRaisesMsg(p) ==
    IF p.t = "null" THEN NoAttr("NoneType", "endswith") ELSE NoAttr("int", "endswith")

\* line 48
IsHealthCheck(p, m) == EndsWithHealth(p.cs) /\ m = PyStr(<<"GET">>)

NoLocals ==
    [recording_url |-> PyMissing, start_seconds |-> 0, end_seconds |-> 0,
     chat_image_base64 |-> PyMissing, call_id |-> <<>>, exchange_index |-> 0]

NoBody == [kind |-> "none", f |-> [k \in {} |-> PyMissing]]

\* what each step did: route is "raised", "health" or "generate"; http_code and
\* http_text are the status and the body text of the store's answer
NoStage ==
    [route |-> "none", version |-> "none", mkdir |-> "none", decode |-> "none",
     write |-> "none", slice |-> "none", compose |-> "none", read |-> "none",
     upload |-> "none", http_code |-> 0, http_text |-> <<>>, rmtree |-> "none"]

\* no request is in flight beside the one handler serves
NoRequests ==
    /\ inflight = <<>>
    /\ issued = {}
    /\ tmp = [dirs |-> {}, files |-> {}]
    /\ touched = {}

\* the agent has no job
NoSessions ==
    /\ sessions = <<>>
    /\ transcript_entries = 1
    /\ lists = << <<>> >>
    /\ loop = <<>>
    /\ room = <<>>

\* the chat loop is not running
NoChat ==
    /\ chat_pc = "off"
    /\ user_input = <<>>
    /\ conversation = <<>>
    /\ exchanges = <<>>
    /\ reads = 0

HandlerInit ==
    /\ pc = "route"
    /\ path = PyMissing
    /\ http_method = PyMissing
    /\ body = NoBody
    /\ locals = NoLocals
    /\ work_dir = <<>>
    /\ file_name = <<>>
    /\ dirs = {}
    /\ bucket = {}
    /\ calls = <<>>
    /\ stage = NoStage
    /\ pending = NoPending
    /\ response = NoResp

Init ==
    /\ HandlerInit
    /\ NoRequests
    /\ NoSessions
    /\ NoChat

Route ==
    /\ pc = "route"
    /\ \E ev \in RoutingEvents :
        /\ path' = PathOf(ev)
        /\ IF MethodRaises(ev)
           THEN /\ http_method' = http_method
                /\ response' = Raised(MethodRaisesMsg(ev))
                /\ stage' = [stage EXCEPT !.route = "raised"]
                /\ pc' = "done"
           ELSE /\ http_method' = MethodOf(ev)
                /\ IF EndswithRaises(PathOf(ev))
                   THEN /\ response' = Raised(EndswithRaisesMsg(PathOf(ev)))
                        /\ stage' = [stage EXCEPT !.route = "raised"]
                        /\ pc' = "done"
                   ELSE /\ response' = response
                        /\ IF IsHealthCheck(PathOf(ev), MethodOf(ev))
                           THEN /\ stage' = [stage EXCEPT !.route = "health"]
                                /\ pc' = "health"
                           ELSE /\ stage' = [stage EXCEPT !.route = "generate"]
                                /\ pc' = "parse"
    /\ UNCHANGED otherVars
    /\ UNCHANGED <<body, locals, work_dir, file_name, dirs, bucket, calls, pending>>

(***************************************************************************)
(* health, lines 190-210.                                                  *)
(***************************************************************************)
\* what subprocess.run(['/opt/bin/ffmpeg', '-version'], timeout=10) does
VersionOutcomes == {"exit0", "nonzero", "timeout", "absent"}

\* FfmpegAvailable with the return code not looked at: true whenever the binary ran
FfmpegAvailableIfRan(outcome) == outcome \in {"exit0", "nonzero"}

\* lines 193-202
FfmpegAvailable(outcome) == outcome = "exit0"

\* a call to the outside: the operation, its timeout, the -ss and -t arguments of a
\* slice, the URL of an upload
Call(op, timeout) == [op |-> op, timeout |-> timeout, ss |-> 0, t |-> 0, url |-> <<>>]

Health ==
    /\ pc = "health"
    /\ \E o \in VersionOutcomes :
        /\ stage' = [stage EXCEPT !.version = o]
        /\ response' = HealthResp(FfmpegAvailable(o))
    /\ calls' = Append(calls, Call("version", HealthTimeout))
    /\ pc' = "done"
    /\ UNCHANGED otherVars
    /\ UNCHANGED <<path, http_method, body, locals, work_dir, file_name, dirs, bucket,
                   pending>>

(***************************************************************************)
(* Request parsing, lines 53-63.                                           *)
(***************************************************************************)
\* event['body']: a str holding a JSON object, a str that is no JSON, a str holding
\* JSON null, an already structured payload, no body key (the event itself is the
\* payload), or null
BodyShapes == {"json_str", "bad_json_str", "json_null_str", "dict", "missing", "null"}

UrlVals == {PyMissing, PyStr(<<"https://rec.example/call.mp3">>)}

SecondsVals ==
    {PyMissing, PyNone, PyStr(<<"x">>), PyStr(<<"1">>)}
        \cup {PyNum(n) : n \in -1..MaxSeconds}

\* base64 text, character by character
ImageVals == {PyMissing, PyStr(<<"a", "G", "k", "=">>), PyStr(<<"a", "G", "k">>)}

CallIdVals == {PyMissing, PyStr(<<"call-7f3a">>)}

IndexVals ==
    {PyMissing, PyNone, PyStr(<<"x">>), PyStr(<<"7">>)}
        \cup {PyNum(n) : n \in 0..MaxIndex}

FieldNames ==
    <<"recording_url", "start_seconds", "end_seconds", "chat_image_base64", "call_id",
      "exchange_index">>

Payloads ==
    [recording_url : UrlVals, start_seconds : SecondsVals, end_seconds : SecondsVals,
     chat_image_base64 : ImageVals, call_id : CallIdVals, exchange_index : IndexVals]

EmptyPayload ==
    [recording_url |-> PyMissing, start_seconds |-> PyMissing, end_seconds |-> PyMissing,
     chat_image_base64 |-> PyMissing, call_id |-> PyMissing, exchange_index |-> PyMissing]

\* json.loads(event['body']) raises
ParseRaises(shape) == shape = "bad_json_str"

\* lines 53-56: the values of body: None, or the mapping of any payload
ParsedBody(shape) ==
    IF shape \in {"json_null_str", "null"}
    THEN {[kind |-> "null", f |-> EmptyPayload]}
    ELSE [kind : {"mapping"}, f : Payloads]

\* the fields float() and int() are applied to
IsNumberField(name) == name \in {"start_seconds", "end_seconds", "exchange_index"}

\* FieldFails with int(body['exchange_index']) left to the place the index is used
FieldFailsIndexUnchecked(b, name) ==
    \/ b.f[name].t = "missing"
    \/ name \in {"start_seconds", "end_seconds"} /\ ~Coercible(b.f[name])

\* lines 58-63 raise on this field: it is missing (KeyError), or float() / int()
\* rejects it (ValueError, TypeError)
FieldFails(b, name) ==
    \/ b.f[name].t = "missing"
    \/ IsNumberField(name) /\ ~Coercible(b.f[name])

FieldFailMsg(b, name) ==
    IF b.f[name].t = "missing" THEN KeyErrorMsg(name)
    ELSE IF name = "exchange_index" THEN BadIntMsg(b.f[name])
    ELSE BadFloatMsg(b.f[name])

\* the position in FieldNames of the first field lines 58-63 raise on, 0 when none
FirstFailure(b) ==
    IF \E i \in 1..Len(FieldNames) : FieldFails(b, FieldNames[i])
    THEN CHOOSE i \in 1..Len(FieldNames) :
            /\ FieldFails(b, FieldNames[i])
            /\ \A j \in 1..(i - 1) : ~FieldFails(b, FieldNames[j])
    ELSE 0

\* lines 58-63 raise
FieldsRaise(b) == b.kind # "mapping" \/ FirstFailure(b) # 0

FieldsRaiseMsg(b) ==
    IF b.kind # "mapping" THEN NotSubscriptable("NoneType")
    ELSE FieldFailMsg(b, FieldNames[FirstFailure(b)])

\* lines 58-63, when they do not raise
LocalsOf(b) ==
    [recording_url |-> b.f.recording_url,
     start_seconds |-> CoerceNum(b.f.start_seconds),
     end_seconds |-> CoerceNum(b.f.end_seconds),
     chat_image_base64 |-> b.f.chat_image_base64,
     call_id |-> b.f.call_id.cs,
     exchange_index |-> CoerceNum(b.f.exchange_index)]

ParseBody ==
    /\ pc = "parse"
    /\ \E shape \in BodyShapes :
        IF ParseRaises(shape)
        THEN /\ body' = body
             /\ response' = GenericError(BadJsonMsg)
             /\ pc' = "done"
        ELSE /\ body' \in ParsedBody(shape)
             /\ response' = response
             /\ pc' = "fields"
    /\ UNCHANGED otherVars
    /\ UNCHANGED <<path, http_method, locals, work_dir, file_name, dirs, bucket, calls,
                   stage, pending>>

ReadFields ==
    /\ pc = "fields"
    /\ IF FieldsRaise(body)
       THEN /\ locals' = locals
            /\ response' = GenericError(FieldsRaiseMsg(body))
            /\ pc' = "done"
       ELSE /\ locals' = LocalsOf(body)
            /\ response' = response
            /\ pc' = "mkdir"
    /\ UNCHANGED otherVars
    /\ UNCHANGED <<path, http_method, body, work_dir, file_name, dirs, bucket, calls,
                   stage, pending>>

(***************************************************************************)
(* The workspace, lines 65-78.                                             *)
(***************************************************************************)
\* the values uuid.uuid4() gives
Uuids == {"3f2a9c1e", "b81d04f7"}

\* WorkDirOf with one fixed name in place of the uuid
WorkDirShared(u) == <<"/tmp/clip-", "work">>

\* line 66
WorkDirOf(u) == <<"/tmp/clip-", u>>

\* os.makedirs(work_dir, exist_ok=True): done, or OSError
MkdirOutcomes == {"ok", "oserror"}

MakeWorkDir ==
    /\ pc = "mkdir"
    /\ \E u \in Uuids, o \in MkdirOutcomes :
        /\ work_dir' = WorkDirOf(u)
        /\ stage' = [stage EXCEPT !.mkdir = o]
        /\ IF o = "ok"
           THEN /\ dirs' = dirs \cup {WorkDirOf(u)}
                /\ response' = response
                /\ pc' = "image"
           ELSE /\ dirs' = dirs
                /\ response' = GenericError(<<"[Errno 28] No space left on device: '">>
                                                \o WorkDirOf(u) \o <<"'">>)
                /\ pc' = "done"
    /\ calls' = Append(calls, Call("makedirs", 0))
    /\ UNCHANGED otherVars
    /\ UNCHANGED <<path, http_method, body, locals, file_name, bucket, pending>>

\* base64.b64decode(text) raises binascii.Error: the padding is incorrect
DecodeRaises(v) == Len(v.cs) % 4 # 0

\* open(image_path, 'wb') / f.write: done, or OSError
WriteOutcomes == {"ok", "oserror"}

SaveImage ==
    /\ pc = "image"
    /\ IF DecodeRaises(locals.chat_image_base64)
       THEN /\ stage' = [stage EXCEPT !.decode = "error"]
            /\ pending' = Raise(<<"Incorrect padding">>)
            /\ pc' = "finally"
       ELSE \E o \in WriteOutcomes :
            /\ stage' = [stage EXCEPT !.decode = "ok", !.write = o]
            /\ IF o = "ok"
               THEN /\ pending' = pending
                    /\ pc' = "slice"
               ELSE /\ pending' = Raise(<<"[Errno 28] No space left on device">>)
                    /\ pc' = "finally"
    /\ UNCHANGED otherVars
    /\ UNCHANGED <<path, http_method, body, locals, work_dir, file_name, dirs, bucket,
                   calls, response>>

(***************************************************************************)
(* The two transcoding stages, lines 80-130.                               *)
(***************************************************************************)
\* what subprocess.run(cmd, capture_output=True, text=True, timeout=120) does: the
\* binary exits 0, exits non-zero, is killed at the timeout (TimeoutExpired), or is
\* not there (FileNotFoundError)
StageOutcomes == {"exit0", "nonzero", "timeout", "absent"}

\* result.stderr
StderrTexts == {<<"Invalid data found when processing input">>}

\* lines 98-104
SliceFailed(stderr) == ErrorResp(<<"FFmpeg slice failed: ">> \o stderr)

\* lines 124-130
ComposeFailed(stderr) == ErrorResp(<<"FFmpeg video generation failed: ">> \o stderr)

\* what a stage leaves pending when it does not exit 0
StagePending(o, cmd, failed) ==
    CASE o = "nonzero" -> Return(failed)
      [] o = "timeout" -> Raise(TimeoutMsg(cmd, StageTimeout))
      [] o = "absent" -> Raise(NoSuchFileMsg("/opt/bin/ffmpeg"))
      [] OTHER -> NoPending

\* AfterSlice with subprocess.run given no timeout: a hung ffmpeg is waited for
AfterSliceNoTimeout(o) ==
    IF o = "exit0" THEN "compose" ELSE IF o = "timeout" THEN "waiting" ELSE "finally"

\* AfterSlice with a failed slice run again
AfterSliceRetried(o) == IF o = "exit0" THEN "compose" ELSE "slice"

\* AfterSlice with the check of result.returncode left out
AfterSliceUnchecked(o) == "compose"

\* where handler goes after the slice stage: line 98
AfterSlice(o) == IF o = "exit0" THEN "compose" ELSE "finally"

\* AfterCompose with the check of result.returncode left out
AfterComposeUnchecked(o) == "read"

\* where handler goes after the compose stage: line 124
AfterCompose(o) == IF o = "exit0" THEN "read" ELSE "finally"

\* line 81
Duration(l) == l.end_seconds - l.start_seconds

\* lines 82-96: the slice command's -ss and -t
SliceCall(l) ==
    [Call("slice", StageTimeout) EXCEPT !.ss = l.start_seconds, !.t = Duration(l)]

Slice ==
    /\ pc = "slice"
    /\ calls' = Append(calls, SliceCall(locals))
    /\ \E o \in StageOutcomes, stderr \in StderrTexts :
        /\ stage' = [stage EXCEPT !.slice = o]
        /\ pending' = StagePending(o, "slice_cmd", SliceFailed(stderr))
        /\ pc' = AfterSlice(o)
    /\ UNCHANGED otherVars
    /\ UNCHANGED <<path, http_method, body, locals, work_dir, file_name, dirs, bucket,
                   response>>

Compose ==
    /\ pc = "compose"
    /\ calls' = Append(calls, Call("compose", StageTimeout))
    /\ \E o \in StageOutcomes, stderr \in StderrTexts :
        /\ stage' = [stage EXCEPT !.compose = o]
        /\ pending' = StagePending(o, "video_cmd", ComposeFailed(stderr))
        /\ pc' = AfterCompose(o)
    /\ UNCHANGED otherVars
    /\ UNCHANGED <<path, http_method, body, locals, work_dir, file_name, dirs, bucket,
                   response>>

\* open(output_path, 'rb') / f.read(): done, or OSError (the stage wrote no file)
ReadOutcomes == {"ok", "oserror"}

\* lines 133-134
ReadOutput ==
    /\ pc = "read"
    /\ \E o \in ReadOutcomes :
        /\ stage' = [stage EXCEPT !.read = o]
        /\ IF o = "ok"
           THEN /\ pending' = pending
                /\ pc' = "upload"
           ELSE /\ pending' = Raise(NoSuchFileMsg("output.mp4"))
                /\ pc' = "finally"
    /\ UNCHANGED otherVars
    /\ UNCHANGED <<path, http_method, body, locals, work_dir, file_name, dirs, bucket,
                   calls, response>>

(***************************************************************************)
(* The upload, lines 136-174.                                              *)
(***************************************************************************)
\* uuid.uuid4().hex[:8]
HexSuffixes == {"9d41c0aa", "0e57b3f2"}

\* line 137
FileName(l, suffix) ==
    l.call_id \o <<"_">> \o IntStr(l.exchange_index) \o <<"_", suffix, ".mp4">>

\* line 138
UploadUrl(name) == SUPABASE_URL \o <<"/storage/v1/object/">> \o SUPABASE_BUCKET \o <<"/">> \o name

\* line 163
PublicUrl(name) ==
    SUPABASE_URL \o <<"/storage/v1/object/public/">> \o SUPABASE_BUCKET \o <<"/">> \o name

\* the status codes of an HTTPError
HttpErrorCodes == {400, 413, 503}

\* the text of the store's response body: of a success answer (JSON or not), of an
\* error answer
OkBodies == {<<"{\"Key\": \"clips/x.mp4\"}">>, <<>>, <<"OK">>}
ErrorBodies == {<<"quota exceeded">>, <<>>}

\* json.loads(text) raises: the text is no JSON document
JsonRaises(text) == text \notin {<<"{\"Key\": \"clips/x.mp4\"}">>}

\* UploadFailed with a message that leaves the store's response body out
UploadFailedNoBody(code, text) == ErrorResp(<<"Supabase upload failed: ">> \o IntStr(code))

\* lines 153-160
UploadFailed(code, text) ==
    ErrorResp(<<"Supabase upload failed: ">> \o IntStr(code) \o <<" ">> \o text)

\* lines 165-174
Success(name) == ClipResp(PublicUrl(name))

\* lines 150-174: what the upload leaves pending
UploadPending(o, code, text, name) ==
    CASE o = "ok" -> IF JsonRaises(text) THEN Raise(BadJsonMsg) ELSE Return(Success(name))
      [] o = "http_error" -> Return(UploadFailed(code, text))
      [] o = "url_error" -> Raise(<<"<urlopen error [Errno 111] Connection refused>">>)
      [] OTHER -> Raise(<<"The read operation timed out">>)

UploadCall(name) == [Call("upload", UploadTimeout) EXCEPT !.url = UploadUrl(name)]

\* urllib.request.urlopen(req, timeout=60): the store answers 2xx and holds the
\* object, answers with an error status (HTTPError), cannot be reached (URLError), or
\* the call times out
Upload ==
    /\ pc = "upload"
    /\ \E suffix \in HexSuffixes :
        /\ file_name' = FileName(locals, suffix)
        /\ calls' = Append(calls, UploadCall(FileName(locals, suffix)))
        /\ \/ \E text \in OkBodies :
                /\ stage' = [stage EXCEPT !.upload = "ok", !.http_code = 200,
                                           !.http_text = text]
                /\ bucket' = bucket \cup {FileName(locals, suffix)}
                /\ pending' = UploadPending("ok", 200, text, FileName(locals, suffix))
           \/ \E code \in HttpErrorCodes, text \in ErrorBodies :
                /\ stage' = [stage EXCEPT !.upload = "http_error", !.http_code = code,
                                           !.http_text = text]
                /\ bucket' = bucket
                /\ pending' = UploadPending("http_error", code, text,
                                            FileName(locals, suffix))
           \/ \E o \in {"url_error", "timeout"} :
                /\ stage' = [stage EXCEPT !.upload = o]
                /\ bucket' = bucket
                /\ pending' = UploadPending(o, 0, <<>>, FileName(locals, suffix))
    /\ pc' = "finally"
    /\ UNCHANGED otherVars
    /\ UNCHANGED <<path, http_method, body, locals, work_dir, dirs, response>>

(***************************************************************************)
(* finally and except, lines 176-187.                                      *)
(***************************************************************************)
\* shutil.rmtree(work_dir, ignore_errors=True): the tree is removed, or an error is
\* swallowed and the directory stays
RmtreeOutcomes == {"ok", "failed"}

\* RemoveTree with the deletion left out
RemoveTreeSkipped(ds, d, o) == ds

\* line 179
RemoveTree(ds, d, o) == IF o = "ok" THEN ds \ {d} ELSE ds

\* Outcome without the except clause: the exception leaves handler
OutcomeReraised(p) == IF p.kind = "return" THEN p.resp ELSE Raised(p.exc)

\* what leaves handler once finally has run: the return value on its way out, or the
\* except clause's response to the exception on its way out (lines 181-187)
Outcome(p) == IF p.kind = "return" THEN p.resp ELSE GenericError(p.exc)

\* Finally with the cleanup after the try body instead of in a finally clause: it
\* runs only when the body returns
FinallyOnReturnOnly ==
    /\ pc = "finally"
    /\ IF pending.kind = "return"
       THEN /\ \E o \in RmtreeOutcomes :
                /\ stage' = [stage EXCEPT !.rmtree = o]
                /\ dirs' = RemoveTree(dirs, work_dir, o)
            /\ calls' = Append(calls, Call("rmtree", 0))
       ELSE UNCHANGED <<stage, dirs, calls>>
    /\ response' = Outcome(pending)
    /\ pc' = "done"
    /\ UNCHANGED otherVars
    /\ UNCHANGED <<path, http_method, body, locals, work_dir, file_name, bucket, pending>>

\* Finally with shutil.rmtree(work_dir), without ignore_errors: a failed deletion
\* raises OSError inside finally and replaces what was on its way out
FinallyRmtreeRaises ==
    /\ pc = "finally"
    /\ \E o \in RmtreeOutcomes :
        /\ stage' = [stage EXCEPT !.rmtree = o]
        /\ dirs' = RemoveTree(dirs, work_dir, o)
        /\ response' = IF o = "ok" THEN Outcome(pending)
                       ELSE GenericError(<<"[Errno 16] Device or resource busy">>)
    /\ calls' = Append(calls, Call("rmtree", 0))
    /\ pc' = "done"
    /\ UNCHANGED otherVars
    /\ UNCHANGED <<path, http_method, body, locals, work_dir, file_name, bucket, pending>>

Finally ==
    /\ pc = "finally"
    /\ \E o \in RmtreeOutcomes :
        /\ stage' = [stage EXCEPT !.rmtree = o]
        /\ dirs' = RemoveTree(dirs, work_dir, o)
    /\ calls' = Append(calls, Call("rmtree", 0))
    /\ response' = Outcome(pending)
    /\ pc' = "done"
    /\ UNCHANGED otherVars
    /\ UNCHANGED <<path, http_method, body, locals, work_dir, file_name, bucket, pending>>

Next ==
    \/ Route
    \/ Health
    \/ ParseBody
    \/ ReadFields
    \/ MakeWorkDir
    \/ SaveImage
    \/ Slice
    \/ Compose
    \/ ReadOutput
    \/ Upload
    \/ Finally

Spec == Init /\ [][Next]_vars

\* handler is one thread of straight-line code: once invoked it keeps running, and
\* each call it waits on returns or is cut off (timeout=120 of subprocess.run,
\* timeout=60 of urlopen), so a step that can be taken is eventually taken
SpecLive == Init /\ [][Next]_vars /\ WF_vars(Next)

(***************************************************************************)
(* Several generation requests in flight over one /tmp, lines 65-179.      *)
(* Each request runs the steps of handler from line 66 on; the steps of    *)
(* different requests interleave in any order.  A request that fails       *)
(* before line 66 touches nothing in /tmp.                                 *)
(***************************************************************************)
NumRequests == 2

Requests == 1..NumRequests

\* the values uuid.uuid4() gives (as numbers): one for each request and one that an
\* earlier invocation on this host was given
UuidSpace == 0..NumRequests

\* the workspace an earlier invocation left behind when its rmtree failed
LeftoverDir == WorkDirOf(0)

\* lines 71-73
ImagePath(d) == d \o <<"/chat.png">>

AudioPath(d) == d \o <<"/audio.m4a">>

OutputPath(d) == d \o <<"/output.mp4">>

\* open(p, 'wb') and ffmpeg -y: the file at p is created or replaced
WriteFile(files, p, r) == {f \in files : f.path # p} \cup {[path |-> p, by |-> r]}

\* the requests whose writing the file at p holds
WritersOf(files, p) == {f.by : f \in {g \in files : g.path = p}}

\* shutil.rmtree(d, ignore_errors=True): the files under d go with it
RemoveFiles(files, d, o) ==
    IF o = "ok" THEN {f \in files : SubSeq(f.path, 1, Len(d)) # d} ELSE files

Touch(r, mode, p, by) == [req |-> r, mode |-> mode, path |-> p, by |-> by]

\* /tmp is reused: it may hold what an earlier invocation left
InitConc ==
    /\ HandlerInit
    /\ inflight = [r \in Requests |-> [pc |-> "mkdir", work_dir |-> <<>>]]
    /\ issued = {0}
    /\ \E left \in BOOLEAN :
        tmp = IF left
              THEN [dirs |-> {LeftoverDir},
                    files |-> {[path |-> ImagePath(LeftoverDir), by |-> 0]}]
              ELSE [dirs |-> {}, files |-> {}]
    /\ touched = {}
    /\ NoSessions
    /\ NoChat

\* lines 66-67: uuid4 gives a value it has not given before; makedirs(exist_ok=True)
\* takes the directory as it is if it exists already
ConcMakeWorkDir(r) ==
    /\ inflight[r].pc = "mkdir"
    /\ \E u \in UuidSpace \ issued, o \in MkdirOutcomes :
        /\ issued' = issued \cup {u}
        /\ IF o = "ok"
           THEN /\ inflight' = [inflight EXCEPT ![r] = [pc |-> "image",
                                                         work_dir |-> WorkDirOf(u)]]
                /\ tmp' = [tmp EXCEPT !.dirs = @ \cup {WorkDirOf(u)}]
                /\ touched' = touched \cup {Touch(r, "makedirs", WorkDirOf(u), r)}
           ELSE /\ inflight' = [inflight EXCEPT ![r] = [pc |-> "done", work_dir |-> <<>>]]
                /\ UNCHANGED <<tmp, touched>>
    /\ UNCHANGED outsideConc

\* lines 76-78: b64decode raises, or the image is written (or the write fails)
ConcSaveImage(r) ==
    /\ inflight[r].pc = "image"
    /\ \E raises \in BOOLEAN, o \in WriteOutcomes :
        IF ~raises /\ o = "ok"
        THEN /\ tmp' = [tmp EXCEPT !.files =
                            WriteFile(@, ImagePath(inflight[r].work_dir), r)]
             /\ touched' = touched \cup
                    {Touch(r, "write", ImagePath(inflight[r].work_dir), r)}
             /\ inflight' = [inflight EXCEPT ![r].pc = "slice"]
        ELSE /\ inflight' = [inflight EXCEPT ![r].pc = "finally"]
             /\ UNCHANGED <<tmp, touched>>
    /\ UNCHANGED <<issued, outsideConc>>

\* lines 81-104: ffmpeg writes audio_path
ConcSlice(r) ==
    /\ inflight[r].pc = "slice"
    /\ \E o \in StageOutcomes :
        /\ IF o = "exit0"
           THEN /\ tmp' = [tmp EXCEPT !.files =
                               WriteFile(@, AudioPath(inflight[r].work_dir), r)]
                /\ touched' = touched \cup
                       {Touch(r, "write", AudioPath(inflight[r].work_dir), r)}
           ELSE UNCHANGED <<tmp, touched>>
        /\ inflight' = [inflight EXCEPT ![r].pc = AfterSlice(o)]
    /\ UNCHANGED <<issued, outsideConc>>

\* lines 107-130: ffmpeg reads image_path and audio_path and writes output_path
ConcCompose(r) ==
    /\ inflight[r].pc = "compose"
    /\ \E o \in StageOutcomes :
        /\ IF o = "exit0"
           THEN /\ tmp' = [tmp EXCEPT !.files =
                               WriteFile(@, OutputPath(inflight[r].work_dir), r)]
                /\ touched' = touched \cup
                       {Touch(r, "read", ImagePath(inflight[r].work_dir), w) :
                            w \in WritersOf(tmp.files, ImagePath(inflight[r].work_dir))}
                       \cup
                       {Touch(r, "read", AudioPath(inflight[r].work_dir), w) :
                            w \in WritersOf(tmp.files, AudioPath(inflight[r].work_dir))}
                       \cup {Touch(r, "write", OutputPath(inflight[r].work_dir), r)}
           ELSE UNCHANGED <<tmp, touched>>
        /\ inflight' = [inflight EXCEPT ![r].pc = AfterCompose(o)]
    /\ UNCHANGED <<issued, outsideConc>>

\* lines 133-134: the file is read if it is there
ConcReadOutput(r) ==
    /\ inflight[r].pc = "read"
    /\ IF WritersOf(tmp.files, OutputPath(inflight[r].work_dir)) # {}
       THEN /\ touched' = touched \cup
                   {Touch(r, "read", OutputPath(inflight[r].work_dir), w) :
                        w \in WritersOf(tmp.files, OutputPath(inflight[r].work_dir))}
            /\ inflight' = [inflight EXCEPT ![r].pc = "upload"]
       ELSE /\ touched' = touched
            /\ inflight' = [inflight EXCEPT ![r].pc = "finally"]
    /\ UNCHANGED <<issued, tmp, outsideConc>>

\* lines 136-174: the upload touches nothing in /tmp
ConcUpload(r) ==
    /\ inflight[r].pc = "upload"
    /\ inflight' = [inflight EXCEPT ![r].pc = "finally"]
    /\ UNCHANGED <<issued, tmp, touched, outsideConc>>

\* lines 176-179
ConcFinally(r) ==
    /\ inflight[r].pc = "finally"
    /\ \E o \in RmtreeOutcomes :
        /\ tmp' = [dirs |-> RemoveTree(tmp.dirs, inflight[r].work_dir, o),
                   files |-> RemoveFiles(tmp.files, inflight[r].work_dir, o)]
        /\ touched' = touched \cup
               {Touch(r, IF o = "ok" THEN "rmtree" ELSE "rmtree_failed",
                      inflight[r].work_dir, r)}
    /\ inflight' = [inflight EXCEPT ![r].pc = "done"]
    /\ UNCHANGED <<issued, outsideConc>>

NextConc ==
    \/ \E r \in Requests : ConcMakeWorkDir(r)
    \/ \E r \in Requests : ConcSaveImage(r)
    \/ \E r \in Requests : ConcSlice(r)
    \/ \E r \in Requests : ConcCompose(r)
    \/ \E r \in Requests : ConcReadOutput(r)
    \/ \E r \in Requests : ConcUpload(r)
    \/ \E r \in Requests : ConcFinally(r)

SpecConc == InitConc /\ [][NextConc]_vars

(***************************************************************************)
(* The voice agent, src/livekit-agent/agent.py.  entrypoint runs once per  *)
(* job; the jobs of one process share the module's globals and its event   *)
(* loop.  Between two awaits a coroutine or handler runs undisturbed, so   *)
(* each action is one such stretch.  The entries' timestamps are left out. *)
(***************************************************************************)
NumSessions == 2

MaxItems == 2

Sessions == 1..NumSessions

\* item.role
Roles == {"user", "assistant"}

\* line 200
Speaker(role) == IF role = "user" THEN "user" ELSE "agent"

\* item.content of the k-th item of session s: what was said; empty for an item
\* without content
Contents(s, k) == {<<>>, << <<"said in room", s, "item", k>> >>}

\* line 191: item.content[0] if item.content else ""
ContentOf(content) == IF content = <<>> THEN <<>> ELSE content[1]

\* lines 172-178
Entry(speaker, text) == [type |-> "transcript", speaker |-> speaker, text |-> text]

\* asyncio.create_task(broadcast_transcript(speaker, content, ...)), line 204
BroadcastTask(s, entry) == [coro |-> "broadcast_transcript", session |-> s, entry |-> entry]

\* asyncio.create_task(send_final_transcript()), line 236
SendFinalTask(s) ==
    [coro |-> "send_final_transcript", session |-> s, entry |-> Entry("", <<>>)]

\* json.dumps(entry), line 182
TranscriptMessage(entry) == [type |-> "transcript", entries |-> <<entry>>]

\* json.dumps(final_data), lines 221-230: the list is serialised as it is then
TranscriptComplete(entries) == [type |-> "transcript_complete", entries |-> entries]

\* publish_data: sent, or it raises
PublishOutcomes == {"sent", "raises"}

\* the module is loaded (lines 23-24) and no job has been given
InitAgent ==
    /\ HandlerInit
    /\ NoRequests
    /\ NoChat
    /\ sessions = [s \in Sessions |-> [pc |-> "idle", items |-> <<>>, final |-> 0]]
    /\ transcript_entries = 1
    /\ lists = << <<>> >>
    /\ loop = <<>>
    /\ room = [s \in Sessions |-> <<>>]

\* lines 144-204: after connect and start_room_recording have returned, the globals
\* are set anew and the conversation_item_added handler is registered
StartSession(s) ==
    /\ sessions[s].pc = "idle"
    /\ lists' = Append(lists, <<>>)
    /\ transcript_entries' = Len(lists) + 1
    /\ sessions' = [sessions EXCEPT ![s].pc = "started"]
    /\ UNCHANGED <<loop, room>>
    /\ UNCHANGED outsideAgent

\* lines 187-204: on_conversation_item
ConversationItem(s) ==
    /\ sessions[s].pc \in {"started", "greeted"}
    /\ Len(sessions[s].items) < MaxItems
    /\ \E role \in Roles, content \in Contents(s, Len(sessions[s].items) + 1) :
        /\ loop' = Append(loop, BroadcastTask(s, Entry(Speaker(role), ContentOf(content))))
        /\ sessions' = [sessions EXCEPT ![s].items =
                            Append(@, Entry(Speaker(role), ContentOf(content)))]
    /\ UNCHANGED <<transcript_entries, lists, room>>
    /\ UNCHANGED outsideAgent

\* lines 206-217: session.start and generate_reply have returned and the
\* disconnected handler is registered
Greeted(s) ==
    /\ sessions[s].pc = "started"
    /\ sessions' = [sessions EXCEPT ![s].pc = "greeted"]
    /\ UNCHANGED <<transcript_entries, lists, loop, room>>
    /\ UNCHANGED outsideAgent

\* lines 217-236: on_room_disconnected; before line 217 no handler is registered
RoomDisconnected(s) ==
    /\ sessions[s].pc \in {"started", "greeted"}
    /\ IF sessions[s].pc = "greeted"
       THEN /\ sessions' = [sessions EXCEPT ![s].pc = "closed",
                                            ![s].final = transcript_entries]
            /\ loop' = Append(loop, SendFinalTask(s))
       ELSE /\ sessions' = [sessions EXCEPT ![s].pc = "closed"]
            /\ loop' = loop
    /\ UNCHANGED <<transcript_entries, lists, room>>
    /\ UNCHANGED outsideAgent

\* lines 170-184: broadcast_transcript, run by the event loop
RunBroadcast ==
    /\ loop # <<>>
    /\ Head(loop).coro = "broadcast_transcript"
    /\ lists' = [lists EXCEPT ![transcript_entries] = Append(@, Head(loop).entry)]
    /\ \E o \in PublishOutcomes :
        room' = IF o = "sent"
                THEN [room EXCEPT ![Head(loop).session] =
                          Append(@, TranscriptMessage(Head(loop).entry))]
                ELSE room
    /\ loop' = Tail(loop)
    /\ UNCHANGED <<sessions, transcript_entries>>
    /\ UNCHANGED outsideAgent

\* lines 227-234: send_final_transcript, run by the event loop
RunSendFinal ==
    /\ loop # <<>>
    /\ Head(loop).coro = "send_final_transcript"
    /\ \E o \in PublishOutcomes :
        room' = IF o = "sent"
                THEN [room EXCEPT ![Head(loop).session] =
                          Append(@, TranscriptComplete(
                                        lists[sessions[Head(loop).session].final]))]
                ELSE room
    /\ loop' = Tail(loop)
    /\ UNCHANGED <<sessions, transcript_entries, lists>>
    /\ UNCHANGED outsideAgent

NextAgent ==
    \/ \E s \in Sessions : StartSession(s)
    \/ \E s \in Sessions : ConversationItem(s)
    \/ \E s \in Sessions : Greeted(s)
    \/ \E s \in Sessions : RoomDisconnected(s)
    \/ RunBroadcast
    \/ RunSendFinal

SpecAgent == InitAgent /\ [][NextAgent]_vars

(***************************************************************************)
(* The chat loop, src/livekit-agent/doc-persona-package/doc.py.  Strings   *)
(* are sequences of characters.  Each action is one pass of the loop of    *)
(* interactive_mode, from input() on.                                      *)
(***************************************************************************)
MaxReads == 4

\* str.lower(), for the letters the inputs hold
LowerChar(c) ==
    CASE c = "Q" -> "q"
      [] c = "U" -> "u"
      [] c = "I" -> "i"
      [] c = "T" -> "t"
      [] c = "W" -> "w"
      [] c = "E" -> "e"
      [] c = "H" -> "h"
      [] OTHER -> c

Lower(str) == [i \in 1..Len(str) |-> LowerChar(str[i])]

RECURSIVE LStrip(_)
LStrip(str) == IF str # <<>> /\ Head(str) = " " THEN LStrip(Tail(str)) ELSE str

RECURSIVE RStrip(_)
RStrip(str) ==
    IF str # <<>> /\ str[Len(str)] = " " THEN RStrip(SubSeq(str, 1, Len(str) - 1)) ELSE str

\* str.strip()
Strip(str) == RStrip(LStrip(str))

\* "/quit"
QuitCommand == <<"/", "q", "u", "i", "t">>

\* "/tweet "
TweetPrefix == <<"/", "t", "w", "e", "e", "t", " ">>

\* line 97: user_input.lower().startswith("/tweet ")
IsTweet(str) ==
    /\ Len(str) >= Len(TweetPrefix)
    /\ SubSeq(Lower(str), 1, Len(TweetPrefix)) = TweetPrefix

\* line 98: user_input[7:].strip()
TweetOf(str) == Strip(SubSeq(str, 8, Len(str)))

\* the lines input() gives
InputLines ==
    { <<>>,
      <<" ">>,
      <<"/", "q", "u", "i", "t">>,
      <<" ", "/", "Q", "U", "I", "T">>,
      <<"/", "t", "w", "e", "e", "t", " ", "h", "i">>,
      <<"/", "T", "W", "E", "E", "T", " ", " ", "H", "i", " ">>,
      <<"/", "t", "w", "e", "e", "t">>,
      <<"/", "t", "w", "e", "e", "t", " ">>,
      <<"h", "i">>,
      <<" ", "H", "i", " ">> }

\* response.choices[0].message.content
Replies == {<<"R", "o", "u", "g", "h">>, <<"H", "a">>}

\* line 52
SystemMessage == [role |-> "system", content |-> <<"DOC_PERSONA">>]

UserMessage(text) == [role |-> "user", content |-> text]

AssistantMessage(text) == [role |-> "assistant", content |-> text]

\* lines 49-54: the messages ask_doc sends
AskDocMessages(message, history) == <<SystemMessage>> \o history \o <<UserMessage(message)>>

\* lines 66-67: respond_to_tweet calls ask_doc without a conversation
TweetMessages(tweet) ==
    AskDocMessages(<<"A physician just posted this on social media. ",
                     "Respond as Doc would", ":", "\n\n", "\"">> \o tweet \o <<"\"">>,
                   <<>>)

\* Appended with the reply put before the message
AppendedReplyFirst(history, text, reply) ==
    history \o <<AssistantMessage(reply), UserMessage(text)>>

\* lines 102-103
Appended(history, text, reply) ==
    history \o <<UserMessage(text), AssistantMessage(reply)>>

\* one call of client.chat.completions.create: what was typed, what was sent and
\* what came back
Exchange(kind, text, sent, reply, raised) ==
    [kind |-> kind, input |-> text, sent |-> sent, reply |-> reply, raised |-> raised]

\* line 81
InitChat ==
    /\ HandlerInit
    /\ NoRequests
    /\ NoSessions
    /\ chat_pc = "input"
    /\ user_input = <<>>
    /\ conversation = <<>>
    /\ exchanges = <<>>
    /\ reads = 0

\* lines 84-88: input() raises EOFError or KeyboardInterrupt
EndOfInput ==
    /\ chat_pc = "input"
    /\ reads < MaxReads
    /\ reads' = reads + 1
    /\ chat_pc' = "ended"
    /\ UNCHANGED <<user_input, conversation, exchanges>>
    /\ UNCHANGED outsideChat

\* lines 85, 90-91
EmptyLine ==
    /\ chat_pc = "input"
    /\ reads < MaxReads
    /\ \E line \in InputLines :
        /\ Strip(line) = <<>>
        /\ user_input' = Strip(line)
    /\ reads' = reads + 1
    /\ UNCHANGED <<chat_pc, conversation, exchanges>>
    /\ UNCHANGED outsideChat

\* lines 85, 93-95
Quit ==
    /\ chat_pc = "input"
    /\ reads < MaxReads
    /\ \E line \in InputLines :
        /\ Strip(line) # <<>>
        /\ Lower(Strip(line)) = QuitCommand
        /\ user_input' = Strip(line)
    /\ reads' = reads + 1
    /\ chat_pc' = "ended"
    /\ UNCHANGED <<conversation, exchanges>>
    /\ UNCHANGED outsideChat

\* lines 85, 97-99, 105: the reply is printed, or the call raises and the
\* exception leaves interactive_mode
Tweet ==
    /\ chat_pc = "input"
    /\ reads < MaxReads
    /\ \E line \in InputLines :
        /\ Strip(line) # <<>>
        /\ Lower(Strip(line)) # QuitCommand
        /\ IsTweet(Strip(line))
        /\ user_input' = Strip(line)
        /\ \/ \E reply \in Replies :
                /\ exchanges' = Append(exchanges,
                       Exchange("tweet", Strip(line), TweetMessages(TweetOf(Strip(line))),
                                reply, FALSE))
                /\ chat_pc' = chat_pc
           \/ /\ exchanges' = Append(exchanges,
                       Exchange("tweet", Strip(line), TweetMessages(TweetOf(Strip(line))),
                                <<>>, TRUE))
              /\ chat_pc' = "raised"
    /\ reads' = reads + 1
    /\ UNCHANGED conversation
    /\ UNCHANGED outsideChat

\* lines 85, 100-105
Message ==
    /\ chat_pc = "input"
    /\ reads < MaxReads
    /\ \E line \in InputLines :
        /\ Strip(line) # <<>>
        /\ Lower(Strip(line)) # QuitCommand
        /\ ~IsTweet(Strip(line))
        /\ user_input' = Strip(line)
        /\ \/ \E reply \in Replies :
                /\ exchanges' = Append(exchanges,
                       Exchange("message", Strip(line),
                                AskDocMessages(Strip(line), conversation), reply, FALSE))
                /\ conversation' = Appended(conversation, Strip(line), reply)
                /\ chat_pc' = chat_pc
           \/ /\ exchanges' = Append(exchanges,
                       Exchange("message", Strip(line),
                                AskDocMessages(Strip(line), conversation), <<>>, TRUE))
              /\ conversation' = conversation
              /\ chat_pc' = "raised"
    /\ reads' = reads + 1
    /\ UNCHANGED outsideChat

NextChat ==
    \/ EndOfInput
    \/ EmptyLine
    \/ Quit
    \/ Tweet
    \/ Message

SpecChat == InitChat /\ [][NextChat]_vars

(***************************************************************************)
(* Properties.                                                             *)
(***************************************************************************)
Done == pc = "done"

Called(op) == \E i \in 1..Len(calls) : calls[i].op = op

CountCalls(op) == Cardinality({i \in 1..Len(calls) : calls[i].op = op})

\* the text msg starts with the text prefix
StartsWith(msg, prefix) ==
    Len(msg) >= Len(prefix) /\ SubSeq(msg, 1, Len(prefix)) = prefix

\* the text msg contains the text part
Contains(msg, part) ==
    \E i \in 1..(Len(msg) + 1) :
        i + Len(part) - 1 <= Len(msg) /\ SubSeq(msg, i, i + Len(part) - 1) = part

\* the workspace directory was allocated in this request
Allocated == stage.mkdir = "ok"

\* C1, as stated: once handler has returned, the workspace directory a request
\* allocated no longer exists, whatever the outcome.
C1_WorkspaceGone == (Done /\ Allocated) => work_dir \notin dirs

\* C1, amended: once handler has returned, the deletion of the workspace directory a
\* request allocated has run exactly once, whatever the outcome, and the directory
\* no longer exists unless that deletion failed (its errors are ignored).
C1_WorkspaceReleased ==
    (Done /\ Allocated) =>
        /\ CountCalls("rmtree") = 1
        /\ stage.rmtree = "ok" => work_dir \notin dirs

\* C1: a request whose slice stage timed out has returned and its workspace is gone
C1_Witness ==
    /\ Done /\ Allocated
    /\ stage.slice = "timeout"
    /\ stage.rmtree = "ok"
    /\ work_dir \notin dirs

\* a required field of the parsed body is absent, or is one that float() / int()
\* reject
C2_FieldInvalid(name) ==
    \/ body.f[name] = PyMissing
    \/ /\ name \in {"start_seconds", "end_seconds", "exchange_index"}
       /\ body.f[name].t # "num"
       /\ ~(body.f[name].t = "str" /\ IsNumeral(body.f[name].cs))

\* (a body that is null holds none of the fields)
C2_RequestInvalid ==
    /\ body.kind \in {"mapping", "null"}
    /\ \E i \in 1..Len(FieldNames) : C2_FieldInvalid(FieldNames[i])

\* C2: a generation request with a required field absent or not coercible gets a
\* failure response, and no workspace directory is created, no stage is invoked and
\* no upload is attempted.
C2_InvalidRequestRejected ==
    C2_RequestInvalid =>
        /\ pc \in {"fields", "done"}
        /\ dirs = {} /\ work_dir = <<>> /\ calls = <<>> /\ bucket = {}
        /\ Done => response.kind = "error" /\ response.statusCode = 500

\* C2: a request whose only fault is an exchange_index that is no number was rejected
C2_Witness ==
    /\ Done
    /\ body.kind = "mapping"
    /\ body.f.exchange_index = PyStr(<<"x">>)
    /\ \A i \in 1..5 : ~C2_FieldInvalid(FieldNames[i])
    /\ response.statusCode = 500

\* C3: compose is invoked only after slice exited 0 and the upload only after
\* compose exited 0; a slice that did not exit 0 is followed by neither, a compose
\* that did not exit 0 is not followed by the upload.
C3_SequentialHalting ==
    /\ \A i \in 1..Len(calls) :
        /\ calls[i].op = "compose" =>
            stage.slice = "exit0" /\ \E j \in 1..(i - 1) : calls[j].op = "slice"
        /\ calls[i].op = "upload" =>
            stage.compose = "exit0" /\ \E j \in 1..(i - 1) : calls[j].op = "compose"
    /\ stage.slice # "exit0" => ~Called("compose") /\ ~Called("upload")
    /\ stage.compose # "exit0" => ~Called("upload")
    /\ pc = "compose" => stage.slice = "exit0"
    /\ pc \in {"read", "upload"} => stage.compose = "exit0"

\* C3: the slice stage exited non-zero and handler returned without composing
C3_Witness ==
    /\ Done
    /\ stage.slice = "nonzero"
    /\ Called("slice")
    /\ ~Called("compose") /\ ~Called("upload")

\* the tags of the stage failures: the start of the message of a non-zero exit
SliceTag == SubSeq(SliceFailed(<<>>).error, 1, 1)
ComposeTag == SubSeq(ComposeFailed(<<>>).error, 1, 1)
UploadTag == SubSeq(UploadFailed(0, <<>>).error, 1, 1)

\* C4: a stage that exceeds its 120-second timeout is reported as a failure of that
\* stage: the error message carries the stage's tag, as for a non-zero exit, and a
\* timeout indicator, and no later step is invoked.
C4_TimeoutIsStageFailure ==
    Done =>
        /\ stage.slice = "timeout" =>
            /\ response.kind = "error"
            /\ StartsWith(response.error, SliceTag)
            /\ Contains(response.error, <<" timed out after ">>)
            /\ ~Called("compose") /\ ~Called("upload")
        /\ stage.compose = "timeout" =>
            /\ response.kind = "error"
            /\ StartsWith(response.error, ComposeTag)
            /\ Contains(response.error, <<" timed out after ">>)
            /\ ~Called("upload")

\* C5: when both stages exit 0 and the store accepts the upload, whatever its
\* response body, handler returns 200 with clipUrl =
\* {SUPABASE_URL}/storage/v1/object/public/clips/{key}, where key is
\* {call_id}_{exchange_index}_{suffix}.mp4 and is the key uploaded under.
C5_SuccessReturnsClipUrl ==
    (Done /\ stage.slice = "exit0" /\ stage.compose = "exit0" /\ stage.upload = "ok") =>
        /\ response.statusCode = 200
        /\ response.kind = "clip"
        /\ response.clipUrl =
            SUPABASE_URL \o <<"/storage/v1/object/public/", "clips", "/">> \o file_name
        /\ \E suffix \in HexSuffixes :
            file_name = locals.call_id \o <<"_">> \o IntStr(locals.exchange_index)
                            \o <<"_", suffix, ".mp4">>
        /\ file_name \in bucket

\* C6: for every event and every fault, handler returns a response object with
\* status 200 or 500 and lets no exception reach its caller.
C6_AlwaysResponds ==
    Done =>
        /\ response.kind \in {"clip", "error", "health"}
        /\ response.statusCode \in {200, 500}

\* C7: a request whose window has start_seconds < 0 or end_seconds <= start_seconds
\* is rejected before a workspace is created, and the slice stage is only ever
\* invoked with a seek position >= 0 and a duration > 0.
C7_WindowValidated ==
    /\ stage.mkdir # "none" =>
        locals.start_seconds >= 0 /\ locals.end_seconds > locals.start_seconds
    /\ \A i \in 1..Len(calls) :
        calls[i].op = "slice" => calls[i].ss >= 0 /\ calls[i].t > 0

\* the release of the workspace ran after the upload, and the directory is gone
\* unless its deletion failed
ReleasedAfterUpload ==
    /\ \E i, j \in 1..Len(calls) : i < j /\ calls[i].op = "upload" /\ calls[j].op = "rmtree"
    /\ stage.rmtree = "ok" => work_dir \notin dirs

\* C8: when the store answers the upload with an error status, handler returns a
\* failure response whose message is tagged as an upload failure and contains the
\* store's status code and the store's response body; the workspace is released.
C8_UploadErrorReported ==
    (Done /\ stage.upload = "http_error") =>
        /\ response.kind = "error" /\ response.statusCode = 500
        /\ StartsWith(response.error, <<"Supabase upload failed: ">>)
        /\ Contains(response.error, IntStr(stage.http_code))
        /\ Contains(response.error, stage.http_text)
        /\ ReleasedAfterUpload

\* C8: the store answered 413 "quota exceeded" and handler has returned
C8_Witness ==
    /\ Done
    /\ stage.upload = "http_error"
    /\ stage.http_code = 413
    /\ stage.http_text = <<"quota exceeded">>
    /\ Contains(response.error, <<"4", "1", "3">>)
    /\ Contains(response.error, <<"quota exceeded">>)

\* C9: every failure of the upload (the store rejects the write, the connection
\* fails, the 60-second timeout) is returned as a failure tagged with the upload
\* stage.
C9_UploadFailuresTagged ==
    (Done /\ stage.upload \in {"http_error", "url_error", "timeout"}) =>
        /\ response.kind = "error"
        /\ StartsWith(response.error, UploadTag)

\* C10: the liveness probe answers 200 'healthy' whatever the binary does, and
\* ffmpeg_available is true exactly when the version query exits 0.
C10_HealthAlwaysHealthy ==
    (Done /\ stage.route = "health") =>
        /\ response.kind = "health"
        /\ response.statusCode = 200
        /\ response.status = "healthy"
        /\ response.ffmpeg_available <=> stage.version = "exit0"
        /\ stage.version \in {"nonzero", "timeout", "absent"} => ~response.ffmpeg_available

\* C10: the probe found the binary exiting non-zero and answered 200, not available
C10_Witness ==
    /\ Done
    /\ stage.route = "health"
    /\ stage.version = "nonzero"
    /\ response.statusCode = 200
    /\ ~response.ffmpeg_available

\* C11: a request is handled as a liveness probe exactly when its path ends with
\* /health and its method is GET; a probe parses no body, creates no workspace and
\* invokes no slice, compose or upload; every other request is handled as a
\* generation request.
C11_ProbeRouting ==
    stage.route # "none" =>
        /\ stage.route = "health" <=>
            (path.t = "str" /\ EndsWithHealth(path.cs) /\ http_method = PyStr(<<"GET">>))
        /\ stage.route = "health" =>
            /\ pc \in {"health", "done"}
            /\ body = NoBody /\ work_dir = <<>> /\ dirs = {}
            /\ ~Called("slice") /\ ~Called("compose") /\ ~Called("upload")
        /\ stage.route # "health" => stage.route = "generate"

\* C12: every response to a generation request is either status 200 with a clipUrl
\* or status 500 with an error message; every failure uses 500, and 200 is returned
\* only if the slice stage, the compose stage and the upload all succeeded.
C12_TwoResponseShapes ==
    (Done /\ stage.route = "generate") =>
        /\ \/ /\ response.kind = "clip" /\ response.statusCode = 200
              /\ response.clipUrl # <<>> /\ response.error = <<>>
           \/ /\ response.kind = "error" /\ response.statusCode = 500
              /\ response.clipUrl = <<>>
        /\ response.statusCode = 200 =>
            stage.slice = "exit0" /\ stage.compose = "exit0" /\ stage.upload = "ok"
        /\ (stage.slice \notin {"none", "exit0"} \/ stage.compose \notin {"none", "exit0"}
                \/ stage.upload \notin {"none", "ok"} \/ stage.decode = "error"
                \/ stage.mkdir = "oserror" \/ stage.mkdir = "none") =>
            response.statusCode = 500

\* C12: a generation request was answered 200 with a clipUrl
C12_Witness ==
    /\ Done /\ stage.route = "generate"
    /\ response.statusCode = 200 /\ response.clipUrl # <<>>
    /\ stage.upload = "ok"

\* C13: when decoding chat_image_base64 fails, handler returns a failure response,
\* no stage is invoked, no upload is attempted, and the workspace acquired before the
\* decode is released.
C13_DecodeFailure ==
    (Done /\ stage.decode = "error") =>
        /\ response.kind = "error" /\ response.statusCode = 500
        /\ ~Called("slice") /\ ~Called("compose") /\ ~Called("upload")
        /\ Allocated
        /\ CountCalls("rmtree") = 1
        /\ stage.rmtree = "ok" => work_dir \notin dirs

\* C13: a request with malformed base64 was answered and its workspace removed
C13_Witness ==
    /\ Done
    /\ stage.decode = "error"
    /\ locals.chat_image_base64 = PyStr(<<"a", "G", "k">>)
    /\ response.statusCode = 500
    /\ work_dir # <<>> /\ work_dir \notin dirs

\* C14: the release of the workspace runs exactly once for each acquire and never
\* without one: after a directory creation that succeeded it runs once, after the last
\* stage or upload call and before the response is returned; on paths that fail
\* before the directory is created it does not run.
C14_ReleaseOncePerAcquire ==
    /\ CountCalls("rmtree") <= 1
    /\ \A j \in 1..Len(calls) :
        calls[j].op = "rmtree" =>
            /\ Allocated
            /\ \E i \in 1..(j - 1) : calls[i].op = "makedirs"
            /\ j = Len(calls)
    /\ (Done /\ Allocated) => CountCalls("rmtree") = 1
    /\ (Done /\ ~Allocated) => ~Called("rmtree")
    /\ (~Done /\ Allocated) => ~Called("rmtree") /\ response = NoResp

\* C14: a request whose upload failed has returned after one release, its last call
C14_Witness ==
    /\ Done /\ Allocated
    /\ stage.upload = "url_error"
    /\ CountCalls("rmtree") = 1
    /\ calls[Len(calls)].op = "rmtree"
    /\ calls[Len(calls) - 1].op = "upload"

\* C15: a failed deletion of the workspace never changes the result: the response
\* is the one the pipeline computed (the value it returned, or the generic error of
\* the exception it raised) whether the deletion succeeds or fails.
C15_CleanupKeepsResult ==
    (Done /\ stage.rmtree # "none") =>
        /\ pending.kind = "return" => response = pending.resp
        /\ pending.kind = "raise" => response = ErrorResp(pending.exc)
        /\ pending.kind \in {"return", "raise"}

\* C15: the deletion failed and handler still returned the clip's URL
C15_Witness ==
    /\ Done
    /\ stage.rmtree = "failed"
    /\ work_dir \in dirs
    /\ response.kind = "clip"

\* C16: within one request the slice stage is invoked at most once, the compose
\* stage at most once and the upload attempted at most once.
C16_NoRetry ==
    /\ CountCalls("slice") <= 1
    /\ CountCalls("compose") <= 1
    /\ CountCalls("upload") <= 1

\* C16: slice, compose and a failed upload were each done once and handler returned
C16_Witness ==
    /\ Done
    /\ stage.upload = "http_error"
    /\ CountCalls("slice") = 1 /\ CountCalls("compose") = 1 /\ CountCalls("upload") = 1

\* C18: every generation request eventually terminates with a returned response:
\* once a request is routed to generation, handler eventually returns the clip's URL
\* or an error; it never waits forever on a stage or on the upload.
C18_Terminates ==
    (stage.route = "generate") ~> (Done /\ response.kind \in {"clip", "error"})

\* C18: both stages and the upload were cut off by their timeouts in turn, and
\* handler returned after each
C18_Witness ==
    /\ Done
    /\ response.kind = "error"
    /\ \/ stage.slice = "timeout"
       \/ stage.compose = "timeout"
       \/ stage.upload = "timeout"

\* the requests that hold a workspace: past makedirs, their finally not yet run
Using(r) == inflight[r].pc \in {"image", "slice", "compose", "read", "upload", "finally"}

\* the workspace a path lies under
DirOf(p) == SubSeq(p, 1, 2)

\* C17: with several generation requests in flight over a shared /tmp, in any
\* interleaving, each workspace directory is owned by one request: no two requests
\* hold the same directory, a request creates, writes, reads and removes only paths
\* under its own workspace and reads only what it wrote itself, and the workspace
\* and files of a request that is still using them are there, whatever the other
\* requests have released.
C17_WorkspaceOwnedByOne ==
    /\ \A r1, r2 \in DOMAIN inflight :
        (r1 # r2 /\ inflight[r1].work_dir # <<>>) =>
            inflight[r1].work_dir # inflight[r2].work_dir
    /\ \A t \in touched :
        /\ DirOf(t.path) = inflight[t.req].work_dir
        /\ t.by = t.req
        /\ DirOf(t.path) # LeftoverDir
    /\ \A r \in DOMAIN inflight :
        Using(r) =>
            /\ inflight[r].work_dir \in tmp.dirs
            /\ inflight[r].pc \in {"slice", "compose"} =>
                  WritersOf(tmp.files, ImagePath(inflight[r].work_dir)) = {r}
            /\ inflight[r].pc = "compose" =>
                  WritersOf(tmp.files, AudioPath(inflight[r].work_dir)) = {r}
            /\ inflight[r].pc = "read" =>
                  WritersOf(tmp.files, OutputPath(inflight[r].work_dir)) \subseteq {r}

\* C17: in a /tmp that held an earlier workspace, one request has released its
\* workspace while another, past its slice, still holds its own
C17_Witness ==
    /\ LeftoverDir \in tmp.dirs
    /\ \E r1, r2 \in DOMAIN inflight :
        /\ r1 # r2
        /\ inflight[r1].pc = "done"
        /\ Touch(r1, "rmtree", inflight[r1].work_dir, r1) \in touched
        /\ Touch(r1, "write", OutputPath(inflight[r1].work_dir), r1) \in touched
        /\ inflight[r2].pc = "compose"
        /\ Touch(r2, "write", AudioPath(inflight[r2].work_dir), r2) \in touched

\* the elements of a sequence
Range(seq) == {seq[i] : i \in 1..Len(seq)}

\* the entry is still on its way: its broadcast_transcript has not run
Scheduled(s, entry) ==
    \E i \in 1..Len(loop) :
        loop[i] = [coro |-> "broadcast_transcript", session |-> s, entry |-> entry]

\* C19: transcript accumulation is per-session: a session's transcript_complete
\* summary holds the entries of that session's conversation items, all of them and
\* no other session's, and the entries a running session has accumulated are in
\* the list its summary will be made of, whatever other sessions have started.
C19_TranscriptPerSession ==
    /\ \A s \in DOMAIN room :
        \A i \in 1..Len(room[s]) :
            room[s][i].type = "transcript_complete" =>
                room[s][i].entries = sessions[s].items
    /\ \A s \in DOMAIN sessions :
        sessions[s].pc \in {"started", "greeted"} =>
            \A e \in Range(sessions[s].items) :
                Scheduled(s, e) \/ e \in Range(lists[transcript_entries])

\* the ordinary messages that got a reply, in the order they were typed
Answered == SelectSeq(exchanges, LAMBDA x : x.kind = "message" /\ ~x.raised)

\* the history a sequence of answered messages makes: user/assistant pairs
RECURSIVE PairsOf(_)
PairsOf(xs) ==
    IF xs = <<>> THEN <<>>
    ELSE PairsOf(SubSeq(xs, 1, Len(xs) - 1))
             \o <<[role |-> "user", content |-> xs[Len(xs)].input],
                  [role |-> "assistant", content |-> xs[Len(xs)].reply]>>

\* C20: in the chat loop the history is the user/assistant pairs of the ordinary
\* messages that got a reply, in input order, one pair for each: empty input,
\* /tweet commands and failed calls add nothing to it, and a /tweet request is
\* sent without the history (the system prompt and the tweet prompt only).
C20_HistoryPairs ==
    /\ conversation = PairsOf(Answered)
    /\ \A i \in 1..Len(exchanges) :
        exchanges[i].kind = "tweet" =>
            /\ Len(exchanges[i].sent) = 2
            /\ exchanges[i].sent[1].role = "system"
            /\ exchanges[i].sent[2].role = "user"
    /\ \A i \in 1..Len(exchanges) :
        exchanges[i].kind = "message" =>
            exchanges[i].sent =
                <<[role |-> "system", content |-> <<"DOC_PERSONA">>]>>
                    \o PairsOf(SelectSeq(SubSeq(exchanges, 1, i - 1),
                                         LAMBDA x : x.kind = "message" /\ ~x.raised))
                    \o <<[role |-> "user", content |-> exchanges[i].input]>>

\* C20: a message was answered, then a /tweet command was answered and an empty
\* line read, then a second message was answered: the history holds two pairs
C20_Witness ==
    /\ Len(exchanges) = 3
    /\ exchanges[1].kind = "message"
    /\ exchanges[2].kind = "tweet"
    /\ exchanges[2].input = <<"/", "T", "W", "E", "E", "T", " ", " ", "H", "i">>
    /\ exchanges[3].kind = "message"
    /\ ~exchanges[3].raised
    /\ reads > Len(exchanges)
    /\ Len(conversation) = 4

====
